---- MODULE Spec2Model ----
(***************************************************************************)
(* lib/customers.js of lamassu-server: the customers table, the partial    *)
(* update with override attribution, the compliance_overrides audit        *)
(* writes that update fires without awaiting, and the derived status.      *)
(*                                                                         *)
(* Values are strings.  NULL stands for SQL null / JS null, undefined for  *)
(* the JS undefined (an absent acting user).  A key is a pair              *)
(* <<style, words>>: the words of the identifier and the casing that       *)
(* joins them, so that snakeCase and camelize change the style and two     *)
(* spellings of one name collapse to one column.                           *)
(***************************************************************************)
EXTENDS Integers, Sequences, FiniteSets, TLC

\* Bounds of the model.
MaxTime == 2
MaxUpdates == 1

NUM_RESULTS == 20

NULL == "null"
undefined == "undefined"
anonymous == "47ac1184-8102-11e7-9079-8f13a7117867"

Ids == {"i1", "i2"}
Phones == {"p1", "p2"}
UserTokens == {undefined, "user-42"}
TimeName(i) == "t" \o ToString(i)
Times == {TimeName(i) : i \in 1..MaxTime}
TimeRank(t) == CHOOSE i \in 1..MaxTime : TimeName(i) = t
Totals == {0, 1}

\* JS truthiness of the values the model uses: null, undefined and the
\* empty string are falsy, every other string is truthy.
Truthy(v) == v \notin {NULL, undefined, ""}

---------------------------------------------------------------------------
\* Keys.
Snake(words) == <<"snake", words>>
Camel(words) == <<"camel", words>>

\* _.snakeCase: the words of the key, lower-cased, joined by "_".
snakeCase(key) == Snake(key[2])
\* camelize, on one key: the words of the key, joined in camel case.
camelizeKey(key) == Camel(key[2])

idCol == Snake(<<"id">>)
phoneCol == Snake(<<"phone">>)
phoneAtCol == Snake(<<"phone", "at">>)
idCardAtCol == Snake(<<"id", "card", "at">>)
frontFacingCamAtCol == Snake(<<"front", "facing", "cam", "at">>)
idCardImageAtCol == Snake(<<"id", "card", "image", "at">>)
statusKey == Snake(<<"status">>)

\* The override columns, in the order of both overrideFields lists.
overrideFieldNames ==
  << Snake(<<"sms", "override">>),
     Snake(<<"id", "card", "data", "override">>),
     Snake(<<"id", "card", "photo", "override">>),
     Snake(<<"front", "facing", "cam", "override">>),
     Snake(<<"sanctions", "check", "override">>),
     Snake(<<"authorized", "override">>) >>

\* field + '_by'
ByField(field) == Snake(Append(field[2], "by"))

OverrideCols == {overrideFieldNames[i] : i \in 1..Len(overrideFieldNames)}
ByCols == {ByField(f) : f \in OverrideCols}
TimeCols == {phoneAtCol, idCardAtCol, frontFacingCamAtCol, idCardImageAtCol}
Columns == {idCol, phoneCol} \cup TimeCols \cup OverrideCols \cup ByCols

\* A variant whose compliance type is always the name without _override.
overrideFieldsBySuffix ==
  << [name |-> overrideFieldNames[1], complianceType |-> "sms"],
     [name |-> overrideFieldNames[2], complianceType |-> "id_card_data"],
     [name |-> overrideFieldNames[3], complianceType |-> "id_card_photo"],
     [name |-> overrideFieldNames[4], complianceType |-> "front_facing_cam"],
     [name |-> overrideFieldNames[5], complianceType |-> "sanctions_check"],
     [name |-> overrideFieldNames[6], complianceType |-> "authorized"] >>

\* overrideFields of addComplianceOverrides: name -> complianceType.
overrideFields ==
  << [name |-> overrideFieldNames[1], complianceType |-> "sms"],
     [name |-> overrideFieldNames[2], complianceType |-> "id_card_data"],
     [name |-> overrideFieldNames[3], complianceType |-> "id_card_photo"],
     [name |-> overrideFieldNames[4], complianceType |-> "front_camera"],
     [name |-> overrideFieldNames[5], complianceType |-> "sanctions"],
     [name |-> overrideFieldNames[6], complianceType |-> "authorized"] >>

---------------------------------------------------------------------------
\* State.
VARIABLES
  customers,       \* the customers table: rows in insertion order
  overrideWrites,  \* the complianceOverrides.add calls issued so far
  inflight,        \* update calls whose row write has not run yet
  nUpdates,        \* number of update calls made
  ret,             \* what the last completed call returned
  added,           \* history: <<id, phone>> of every successful add
  lastSet          \* history: the call and actor that last wrote an override column

vars == <<customers, overrideWrites, inflight, nUpdates, ret, added, lastSet>>

\* The compliance_overrides table: the records whose write succeeded.
compliance_overrides ==
  {overrideWrites[i] : i \in {j \in 1..Len(overrideWrites) :
                                 overrideWrites[j].state = "done"}}

\* The override writes that update call op issued.
WritesOf(op) == {j \in 1..Len(overrideWrites) : overrideWrites[j].op = op}

RowsWithId(rows, id) == {i \in 1..Len(rows) : rows[i][idCol] = id}
RowsWithPhone(rows, phone) == {i \in 1..Len(rows) : rows[i][phoneCol] = phone}

Max(S) == CHOOSE x \in S : \A y \in S : y <= x

\* A call's return: kind is "ok" (value), "null" or "error" (error names it);
\* arg is the phone or id it was called with, data and op the payload and the
\* number of an update call.
Return(fn, arg, data, op, kind, error, value) ==
  [fn |-> fn, arg |-> arg, data |-> data, op |-> op, kind |-> kind,
   error |-> error, value |-> value]

---------------------------------------------------------------------------
\* update: the payload.  data is a JS object: its key/value pairs in insertion
\* order, the keys in whatever casing the caller used.

\* _.mapKeys(_.snakeCase, data): every key snake-cased; of two keys that
\* become the same column the later pair wins.
mapKeys(data) ==
  LET keys == {snakeCase(data[i][1]) : i \in 1..Len(data)}
      last(k) == Max({i \in 1..Len(data) : snakeCase(data[i][1]) = k})
  IN  [k \in keys |-> data[last(k)][2]]

\* A variant that drops nothing.
omitNothing(props, object) == object

\* _.omit(props, object)
omit(props, object) == [k \in DOMAIN object \ props |-> object[k]]

\* customer[field]: undefined for a key the object does not have.
Prop(customer, field) ==
  IF field \in DOMAIN customer THEN customer[field] ELSE undefined

RECURSIVE addOverrideUserFrom(_, _, _)
addOverrideUserFrom(customer, userToken, i) ==
  IF i > Len(overrideFieldNames) THEN customer
  ELSE LET field == overrideFieldNames[i]
           next == IF Truthy(Prop(customer, field))
                   THEN (ByField(field) :> userToken) @@ customer
                   ELSE customer
       IN  addOverrideUserFrom(next, userToken, i + 1)

\* A variant without the early return for an absent user.
addOverrideUserAlways(customer, userToken) ==
  addOverrideUserFrom(customer, userToken, 1)

addOverrideUser(customer, userToken) ==
  IF ~Truthy(userToken) THEN customer
  ELSE addOverrideUserFrom(customer, userToken, 1)

\* The overrides addComplianceOverrides prepares: _.map over overrideFields
\* (one record or null per field), then _.compact.
RECURSIVE compactOverrides(_, _, _, _)
compactOverrides(id, customer, userToken, i) ==
  IF i > Len(overrideFields) THEN << >>
  ELSE LET field == overrideFields[i]
           override == [customerId |-> id,
                        complianceType |-> field.complianceType,
                        overrideBy |-> userToken,
                        verification |-> Prop(customer, field.name)]
       IN  (IF Truthy(Prop(customer, field.name)) THEN <<override>> ELSE << >>)
           \o compactOverrides(id, customer, userToken, i + 1)

\* addComplianceOverrides: one complianceOverrides.add call per prepared
\* override, all issued at once; op tags the update call that issued them.
addComplianceOverrides(op, id, customer, userToken) ==
  LET overrides == compactOverrides(id, customer, userToken, 1)
  IN  [i \in 1..Len(overrides) |->
         [op |-> op, override |-> overrides[i], state |-> "pending"]]

---------------------------------------------------------------------------
\* format: the status.

\* A variant that also lets an equal value replace the current one.
baseGte(value, other) == TimeRank(value) >= TimeRank(other)

\* baseGt of lodash, on timestamps.
baseGt(value, other) == TimeRank(value) > TimeRank(other)

\* _.maxBy('value', array) (lodash baseExtremum): left to right, a null or
\* undefined value is skipped, a later element replaces the current one
\* only when its value is strictly greater.  << >> when nothing was picked.
RECURSIVE baseExtremum(_, _, _, _)
baseExtremum(array, index, computed, result) ==
  IF index > Len(array) THEN result
  ELSE LET current == array[index].value
       IN  IF /\ current \notin {NULL, undefined}
              /\ (computed = undefined \/ baseGt(current, computed))
           THEN baseExtremum(array, index + 1, current, <<array[index]>>)
           ELSE baseExtremum(array, index + 1, computed, result)

maxBy(array) == baseExtremum(array, 1, undefined, << >>)

camelize(obj) ==
  [k \in {camelizeKey(c) : c \in DOMAIN obj} |->
     obj[CHOOSE c \in DOMAIN obj : camelizeKey(c) = k]]

\* format(customer): [kind |-> "ok", value |-> the camelized customer with
\* its status], or the TypeError of status.label when no milestone is set.
format(customer) ==
  LET status == maxBy(<< [label |-> "Phone", value |-> customer[phoneAtCol]],
                         [label |-> "ID card", value |-> customer[idCardAtCol]],
                         [label |-> "Front facing camera",
                          value |-> customer[frontFacingCamAtCol]],
                         [label |-> "ID card image",
                          value |-> customer[idCardImageAtCol]] >>)
  IN  IF status = << >>
      THEN [kind |-> "error", error |-> "TypeError", value |-> << >>]
      ELSE [kind |-> "ok", error |-> "",
            value |-> camelize((statusKey :> status[1].label) @@ customer)]

---------------------------------------------------------------------------
\* The payloads update is called with.

smsOverride == <<"sms", "override">>

\* One-key payloads: an id, a phone, every milestone with every time, every
\* override field with a verification, and nulls.
KeyValues ==
  {<<Camel(<<"id">>), i>> : i \in Ids}
  \cup {<<Camel(<<"phone">>), p>> : p \in Phones}
  \cup {<<camelizeKey(c), t>> : c \in TimeCols, t \in Times}
  \cup {<<camelizeKey(phoneAtCol), NULL>>}
  \cup {<<camelizeKey(c), "verified">> : c \in OverrideCols}
  \cup {<<Camel(smsOverride), NULL>>}
  \cup {<<Camel(Append(smsOverride, "by")), "user-7">>}

\* Payloads of several keys: two spellings of one column, an override with
\* its own _by key, two overrides set and one cleared, an id next to a
\* milestone, two milestones at one time, a milestone set and another
\* cleared.
KeyGroups ==
  {<< <<Camel(smsOverride), "verified">>, <<Snake(smsOverride), NULL>> >>,
   << <<Snake(smsOverride), NULL>>, <<Camel(smsOverride), "blocked">> >>,
   << <<Camel(smsOverride), "verified">>,
      <<Camel(Append(smsOverride, "by")), "user-7">> >>,
   << <<Camel(<<"sanctions", "check", "override">>), "verified">>,
      <<Camel(<<"authorized", "override">>), "blocked">>,
      <<Camel(<<"id", "card", "data", "override">>), NULL>> >>}
  \cup {<< <<Camel(<<"id">>), i>>, <<camelizeKey(idCardAtCol), "t1">> >> : i \in Ids}
  \cup {<< <<camelizeKey(frontFacingCamAtCol), t>>,
           <<camelizeKey(idCardImageAtCol), t>> >> : t \in Times}
  \cup {<< <<camelizeKey(phoneAtCol), NULL>>, <<camelizeKey(idCardAtCol), t>> >> :
          t \in Times}

Payloads == {<< >>} \cup {<<kv>> : kv \in KeyValues} \cup KeyGroups

---------------------------------------------------------------------------
\* The store.

\* A row as the insert of add leaves it: every other column null.
NewRow(id, phone, now) ==
  [c \in Columns |->
     IF c = idCol THEN id
     ELSE IF c = phoneCol THEN phone
     ELSE IF c = phoneAtCol THEN now
     ELSE NULL]

\* A table without the constraint.
PhoneNeverTaken(rows, phone, own) == FALSE

\* The unique constraint on customers.phone: would giving phone to the rows
\* at `own` collide with another row?
PhoneTaken(rows, phone, own) ==
  /\ phone # NULL
  /\ RowsWithPhone(rows, phone) \ own # {}

\* update customers set <the columns of updateData> on one row.
SetColumns(row, updateData) ==
  [c \in Columns |-> IF c \in DOMAIN updateData THEN updateData[c] ELSE row[c]]

Init ==
  /\ customers = << >>
  /\ overrideWrites = << >>
  /\ inflight = {}
  /\ nUpdates = 0
  /\ ret = Return("", "", << >>, 0, "none", "", << >>)
  /\ added = {}
  /\ lastSet = {}

\* uuid.v4(): an id no row has (which one is immaterial).
FreshIds == {id \in Ids : RowsWithId(customers, id) = {}}

\* add(customer): the insert fails on a phone another row holds.
Add(phone, now) ==
  LET id == CHOOSE i \in FreshIds : TRUE
  IN
    /\ FreshIds # {}
    /\ IF PhoneTaken(customers, phone, {})
       THEN /\ ret' = Return("add", phone, << >>, 0, "error", "DuplicatePhone", << >>)
            /\ UNCHANGED <<customers, added>>
       ELSE /\ customers' = Append(customers, NewRow(id, phone, now))
            /\ ret' = Return("add", phone, << >>, 0, "ok", "", NewRow(id, phone, now))
            /\ added' = added \cup {<<id, phone>>}
    /\ UNCHANGED <<overrideWrites, inflight, nUpdates, lastSet>>

\* update(id, data, userToken), up to the db.one call: the payload is
\* normalized and attributed, the override writes are issued and left
\* behind, the update statement is built (pg-promise refuses to build one
\* without columns) and sent.
Update(id, data, userToken) ==
  LET formattedData == omit({idCol}, mapKeys(data))
      updateData == addOverrideUser(formattedData, userToken)
      op == nUpdates + 1
  IN  /\ nUpdates < MaxUpdates
      /\ nUpdates' = op
      /\ overrideWrites' =
           overrideWrites \o addComplianceOverrides(op, id, updateData, userToken)
      /\ IF DOMAIN updateData = {}
         THEN /\ ret' = Return("update", id, data, op, "error", "EmptyUpdate", << >>)
              /\ UNCHANGED inflight
         ELSE /\ inflight' = inflight \cup
                   {[op |-> op, id |-> id, data |-> data, userToken |-> userToken,
                     updateData |-> updateData]}
              /\ UNCHANGED ret
      /\ UNCHANGED <<customers, added, lastSet>>

\* The update statement of call c runs, and db.one settles: rejected by the
\* unique constraint, rejected for returning no row, or resolved with the
\* updated row, which format then decorates.
Settle(c) ==
  LET own == RowsWithId(customers, c.id)
      i == CHOOSE j \in own : TRUE
      row == SetColumns(customers[i], c.updateData)
      formatted == format(row)
  IN  IF own = {}
      THEN /\ ret' = Return("update", c.id, c.data, c.op, "error", "QueryResultError", << >>)
           /\ UNCHANGED <<customers, lastSet>>
      ELSE IF PhoneTaken(customers, Prop(c.updateData, phoneCol), own)
      THEN /\ ret' = Return("update", c.id, c.data, c.op, "error", "DuplicatePhone", << >>)
           /\ UNCHANGED <<customers, lastSet>>
      ELSE /\ customers' = [customers EXCEPT ![i] = row]
           /\ lastSet' =
                {w \in lastSet : w.id # c.id \/ w.col \notin DOMAIN c.updateData}
                \cup {[id |-> c.id, col |-> col, op |-> c.op,
                       userToken |-> c.userToken] :
                        col \in OverrideCols \cap DOMAIN c.updateData}
           /\ ret' = Return("update", c.id, c.data, c.op, formatted.kind,
                            formatted.error, formatted.value)

\* A variant of update that awaits its override writes before the row
\* write and fails when one of them failed.
RowWriteAwaited(c) ==
  /\ c \in inflight
  /\ \A j \in WritesOf(c.op) : overrideWrites[j].state # "pending"
  /\ inflight' = inflight \ {c}
  /\ IF \E j \in WritesOf(c.op) : overrideWrites[j].state = "failed"
     THEN /\ ret' = Return("update", c.id, c.data, c.op, "error", "OverrideError", << >>)
          /\ UNCHANGED <<customers, lastSet>>
     ELSE Settle(c)
  /\ UNCHANGED <<overrideWrites, nUpdates, added>>

\* The row write of call c: sent by update right after the override writes
\* were issued, it runs whatever has become of them.
RowWrite(c) ==
  /\ c \in inflight
  /\ inflight' = inflight \ {c}
  /\ Settle(c)
  /\ UNCHANGED <<overrideWrites, nUpdates, added>>

\* One complianceOverrides.add settles: the record is stored, or the write
\* fails; nobody holds the promise.
OverrideWrite(i, ok) ==
  /\ i \in 1..Len(overrideWrites)
  /\ overrideWrites[i].state = "pending"
  /\ overrideWrites' =
       [overrideWrites EXCEPT ![i].state = IF ok THEN "done" ELSE "failed"]
  /\ UNCHANGED <<customers, inflight, nUpdates, ret, added, lastSet>>

dailyVolumeKey == Camel(<<"daily", "volume">>)

\* get(phone): id and phone of the row with that phone, with the daily
\* volume (the two totals the transaction tables answer with, added).
Get(phone, cashInTotal, cashOutTotal) ==
  LET found == RowsWithPhone(customers, phone)
      i == CHOOSE j \in found : TRUE
  IN  /\ ret' =
           IF found = {} THEN Return("get", phone, << >>, 0, "null", "", << >>)
           ELSE IF Cardinality(found) > 1
           THEN Return("get", phone, << >>, 0, "error", "QueryResultError", << >>)
           ELSE Return("get", phone, << >>, 0, "ok", "",
                       (dailyVolumeKey :> cashInTotal + cashOutTotal)
                       @@ [k \in {idCol, phoneCol} |-> customers[i][k]])
      /\ UNCHANGED <<customers, overrideWrites, inflight, nUpdates, added, lastSet>>

\* getById(id)
GetById(id) ==
  LET found == RowsWithId(customers, id)
      i == CHOOSE j \in found : TRUE
      formatted == format(customers[i])
  IN  /\ ret' =
           IF found = {} THEN Return("getById", id, << >>, 0, "null", "", << >>)
           ELSE IF Cardinality(found) > 1
           THEN Return("getById", id, << >>, 0, "error", "QueryResultError", << >>)
           ELSE Return("getById", id, << >>, 0, formatted.kind, formatted.error,
                       formatted.value)
      /\ UNCHANGED <<customers, overrideWrites, inflight, nUpdates, added, lastSet>>

\* The rows batch selects: not the anonymous customer, newest first, at
\* most NUM_RESULTS.
RECURSIVE recent(_, _)
recent(rows, limit) ==
  IF rows = << >> \/ limit = 0 THEN << >>
  ELSE LET row == rows[Len(rows)]
           rest == SubSeq(rows, 1, Len(rows) - 1)
       IN  IF row[idCol] = anonymous THEN recent(rest, limit)
           ELSE <<row>> \o recent(rest, limit - 1)

\* batch()
Batch ==
  LET rows == recent(customers, NUM_RESULTS)
      formatted == [i \in 1..Len(rows) |-> format(rows[i])]
  IN  /\ ret' =
           IF \E i \in 1..Len(rows) : formatted[i].kind = "error"
           THEN Return("batch", "", << >>, 0, "error", "TypeError", << >>)
           ELSE Return("batch", "", << >>, 0, "ok", "",
                       [i \in 1..Len(rows) |-> formatted[i].value])
      /\ UNCHANGED <<customers, overrideWrites, inflight, nUpdates, added, lastSet>>

Next ==
  \/ \E phone \in Phones, now \in Times : Add(phone, now)
  \/ \E id \in Ids, data \in Payloads, userToken \in UserTokens :
       Update(id, data, userToken)
  \/ \E c \in inflight : RowWrite(c)
  \/ \E i \in 1..Len(overrideWrites), ok \in BOOLEAN : OverrideWrite(i, ok)
  \/ \E phone \in Phones, cashInTotal \in Totals, cashOutTotal \in Totals :
       Get(phone, cashInTotal, cashOutTotal)
  \/ \E id \in Ids : GetById(id)
  \/ Batch

Spec == Init /\ [][Next]_vars

\* The calls that write, without the reads between them.
WriteNext ==
  \/ \E phone \in Phones, now \in Times : Add(phone, now)
  \/ \E id \in Ids, data \in Payloads, userToken \in UserTokens :
       Update(id, data, userToken)
  \/ \E c \in inflight : RowWrite(c)
  \/ \E i \in 1..Len(overrideWrites), ok \in BOOLEAN : OverrideWrite(i, ok)

WriteSpec == Init /\ [][WriteNext]_vars

---------------------------------------------------------------------------
\* What the claims speak of, stated on the caller's payload and on the
\* tables, not through the operators of update.

\* The value the payload gives the column, whatever the spelling of its key
\* (the last such key wins); undefined when no key names it.
PayloadNames(data, col) == \E i \in 1..Len(data) : data[i][1][2] = col[2]
PayloadValue(data, col) ==
  IF PayloadNames(data, col)
  THEN data[Max({i \in 1..Len(data) : data[i][1][2] = col[2]})][2]
  ELSE undefined

RECURSIVE JoinWords(_)
JoinWords(words) ==
  IF Len(words) = 1 THEN words[1]
  ELSE words[1] \o "_" \o JoinWords(Tail(words))

\* The compliance type of an override column: front_camera, sanctions, or
\* the column's name without its _override suffix.
ComplianceTypeOf(col) ==
  IF col = Snake(<<"front", "facing", "cam", "override">>) THEN "front_camera"
  ELSE IF col = Snake(<<"sanctions", "check", "override">>) THEN "sanctions"
  ELSE JoinWords(SubSeq(col[2], 1, Len(col[2]) - 1))

Settled ==
  /\ inflight = {}
  /\ \A j \in 1..Len(overrideWrites) : overrideWrites[j].state # "pending"

\* C1: once every call has settled, every override column of a customer row
\* that is not null has a ComplianceOverride record with the row's id, the
\* column's compliance type, the column's value and the actor that wrote the
\* column, created by the update that wrote it.
C1_EveryOverrideIsAudited ==
  Settled =>
    \A i \in 1..Len(customers), col \in OverrideCols :
      LET row == customers[i]
      IN  row[col] # NULL =>
            \E by \in lastSet, w \in compliance_overrides :
              /\ by.id = row[idCol] /\ by.col = col
              /\ w.op = by.op
              /\ w.override = [customerId |-> row[idCol],
                               complianceType |-> ComplianceTypeOf(col),
                               overrideBy |-> by.userToken,
                               verification |-> row[col]]

\* C2: an update whose id matches no customer row (and whose payload names
\* a column, so that the statement reaches the store) returns null.
C2_UpdateOfMissingIdReturnsNull ==
  (/\ ret.fn = "update"
   /\ ret.error # "EmptyUpdate"
   /\ RowsWithId(customers, ret.arg) = {}) => ret.kind = "null"

\* C3: an update call issues exactly one ComplianceOverride
\* {customerId: id, complianceType: mapped type, overrideBy: actingUser,
\* verification: value} for each override field that is truthy in the
\* payload, with or without an acting user, and none for anything else.
C3_OneOverridePerTruthyField ==
  \A c \in inflight :
    /\ \A col \in OverrideCols :
         LET v == PayloadValue(c.data, col)
             expected == [customerId |-> c.id,
                          complianceType |-> ComplianceTypeOf(col),
                          overrideBy |-> c.userToken,
                          verification |-> v]
         IN  Cardinality({j \in WritesOf(c.op) :
                            overrideWrites[j].override = expected})
               = IF Truthy(v) THEN 1 ELSE 0
    /\ Cardinality(WritesOf(c.op))
         = Cardinality({col \in OverrideCols : Truthy(PayloadValue(c.data, col))})

C3_Witness ==
  \E c \in inflight :
    /\ c.userToken = undefined
    /\ Cardinality(WritesOf(c.op)) = 2
    /\ \E col \in OverrideCols :
         PayloadNames(c.data, col) /\ ~Truthy(PayloadValue(c.data, col))

\* C5: the phone a customer was added with stays the phone of its row.
C5_PhoneIsFixed ==
  \A a \in added :
    \A i \in RowsWithId(customers, a[1]) : customers[i][phoneCol] = a[2]

\* C9: get(p) and getById(i) of a customer that add created with phone p and
\* id i return a record with id i and phone p.
C9_AddedCustomerIsFound ==
  /\ ret.fn = "getById" =>
       \A a \in added :
         a[1] = ret.arg =>
           /\ ret.kind = "ok"
           /\ ret.value[camelizeKey(idCol)] = a[1]
           /\ ret.value[camelizeKey(phoneCol)] = a[2]
  /\ ret.fn = "get" =>
       \A a \in added :
         a[2] = ret.arg =>
           /\ ret.kind = "ok"
           /\ ret.value[idCol] = a[1]
           /\ ret.value[phoneCol] = a[2]


\* The calls whose row write this step runs, and the calls this step makes.
Completing == inflight \ inflight'
Calling == inflight' \ inflight

\* Is the update of call c refused by the store itself?
NoSuchRow(c) == RowsWithId(customers, c.id) = {}
PhoneCollides(c) ==
  /\ PayloadNames(c.data, phoneCol)
  /\ \E j \in 1..Len(customers) :
       /\ customers[j][idCol] # c.id
       /\ customers[j][phoneCol] = PayloadValue(c.data, phoneCol)

\* C4: the row write of an update never waits for the override writes of
\* that update, and whether they are pending, stored or failed, the write is
\* applied unless the store refuses it, and update returns the written row
\* or the store's own error.
C4_RowWriteIgnoresOverrideWrites ==
  /\ [](\A c \in inflight : ENABLED RowWrite(c))
  /\ [][\A c \in Completing :
          /\ ret'.fn = "update" /\ ret'.op = c.op
          /\ IF NoSuchRow(c)
             THEN ret'.kind = "error" /\ ret'.error = "QueryResultError"
             ELSE IF PhoneCollides(c)
             THEN ret'.kind = "error" /\ ret'.error = "DuplicatePhone"
             ELSE \A i \in RowsWithId(customers, c.id) :
                    /\ \A col \in DOMAIN c.updateData :
                         customers'[i][col] = c.updateData[col]
                    /\ IF \A t \in TimeCols : customers'[i][t] = NULL
                       THEN ret'.kind = "error" /\ ret'.error = "TypeError"
                       ELSE /\ ret'.kind = "ok"
                            /\ \A col \in Columns :
                                 ret'.value[camelizeKey(col)] = customers'[i][col]
      ]_vars

\* An update has returned its row although one of its override writes failed.
C4_Witness ==
  /\ ret.fn = "update" /\ ret.kind = "ok"
  /\ \E j \in WritesOf(ret.op) : overrideWrites[j].state = "failed"
  /\ \E j \in WritesOf(ret.op) : overrideWrites[j].state = "pending"
  /\ \E i \in RowsWithId(customers, ret.arg), col \in OverrideCols :
       customers[i][col] = "verified"

\* The columns an update call may write: those its payload names, id apart,
\* and the _by companions of the override fields it attributes.
NamedColumns(c) ==
  ({Snake(c.data[k][1][2]) : k \in 1..Len(c.data)} \ {idCol})
  \cup {ByField(col) : col \in {o \in OverrideCols :
                                  /\ Truthy(c.userToken)
                                  /\ Truthy(PayloadValue(c.data, o))}}

\* C6: update changes, on the row with the given id, only the columns its
\* normalized payload names and the _by companions it adds; the id of the row
\* stays, and every other row stays as it was.
C6_UpdateChangesOnlyNamedColumns ==
  [][/\ \A c \in Calling : customers' = customers
     /\ \A c \in Completing :
          /\ Len(customers') = Len(customers)
          /\ \A i \in 1..Len(customers) :
               /\ customers'[i][idCol] = customers[i][idCol]
               /\ customers[i][idCol] # c.id => customers'[i] = customers[i]
               /\ \A col \in Columns \ NamedColumns(c) :
                    customers'[i][col] = customers[i][col]
    ]_vars

\* An update whose payload named another id and a milestone has returned the
\* row it was called for, with the milestone set, the other row still there.
C6_Witness ==
  /\ Len(customers) = 2
  /\ ret.fn = "update" /\ ret.kind = "ok"
  /\ PayloadNames(ret.data, idCol)
  /\ PayloadValue(ret.data, idCol) # ret.arg
  /\ RowsWithId(customers, PayloadValue(ret.data, idCol)) # {}
  /\ \E i \in RowsWithId(customers, ret.arg) :
       customers[i][idCardAtCol] = PayloadValue(ret.data, idCardAtCol)

\* C7 as claimed: with an acting user the _by column of an override field is
\* written with the user exactly when the field is truthy in the payload;
\* without an acting user no _by column is written.
C7_ByColumnsOnlyFromActingUser ==
  \A c \in inflight, col \in OverrideCols :
    IF Truthy(c.userToken)
    THEN (/\ ByField(col) \in DOMAIN c.updateData
          /\ c.updateData[ByField(col)] = c.userToken)
         <=> Truthy(PayloadValue(c.data, col))
    ELSE ByField(col) \notin DOMAIN c.updateData

\* C7, amended: with an acting user the _by column of every override field
\* that is truthy in the payload is written with the user; every other _by
\* column is written only if the payload itself names it, with the value
\* the payload gives.
C7_ByColumnsAddedForActingUser ==
  \A c \in inflight, col \in OverrideCols :
    IF Truthy(c.userToken) /\ Truthy(PayloadValue(c.data, col))
    THEN /\ ByField(col) \in DOMAIN c.updateData
         /\ c.updateData[ByField(col)] = c.userToken
    ELSE /\ ByField(col) \in DOMAIN c.updateData
              <=> PayloadNames(c.data, ByField(col))
         /\ ByField(col) \in DOMAIN c.updateData
              => c.updateData[ByField(col)] = PayloadValue(c.data, ByField(col))

C7_Witness ==
  \E c \in inflight :
    /\ c.userToken = "user-42"
    /\ \E col \in OverrideCols :
         /\ Truthy(PayloadValue(c.data, col))
         /\ c.updateData[ByField(col)] = "user-42"
    /\ \E col \in OverrideCols :
         /\ PayloadNames(c.data, col)
         /\ ByField(col) \notin DOMAIN c.updateData

\* The milestones of a formatted customer, in the fixed order.
Milestones(customer) ==
  << [label |-> "Phone", at |-> customer[Camel(<<"phone", "at">>)]],
     [label |-> "ID card", at |-> customer[Camel(<<"id", "card", "at">>)]],
     [label |-> "Front facing camera",
      at |-> customer[Camel(<<"front", "facing", "cam", "at">>)]],
     [label |-> "ID card image",
      at |-> customer[Camel(<<"id", "card", "image", "at">>)]] >>

\* Milestone i is the first of the milestones with the latest time.
FirstLatest(m, i) ==
  /\ m[i].at # NULL
  /\ \A j \in 1..Len(m) :
       m[j].at # NULL => TimeRank(m[j].at) <= TimeRank(m[i].at)
  /\ \A j \in 1..(i - 1) :
       m[j].at # NULL => TimeRank(m[j].at) < TimeRank(m[i].at)

StatusIsFirstLatest(customer) ==
  LET m == Milestones(customer)
  IN  \E i \in 1..Len(m) :
        FirstLatest(m, i) /\ customer[Camel(<<"status">>)] = m[i].label

Returned ==
  IF ret.kind # "ok" THEN {}
  ELSE IF ret.fn \in {"update", "getById"} THEN {ret.value}
  ELSE IF ret.fn = "batch" THEN {ret.value[i] : i \in 1..Len(ret.value)}
  ELSE {}

\* C8: the status of every customer that getById, batch and update return is
\* the label of the milestone with the latest time that is not null, the
\* first of them in the order Phone, ID card, Front facing camera, ID card
\* image when several share it.
C8_StatusIsFirstLatestMilestone ==
  \A customer \in Returned : StatusIsFirstLatest(customer)

\* A returned customer whose latest time is shared by two milestones, the
\* first milestone, Phone, being older or null.
C8_Witness ==
  \E customer \in Returned :
    LET m == Milestones(customer)
    IN  \E i \in 2..Len(m), j \in 2..Len(m) :
          /\ i < j
          /\ FirstLatest(m, i)
          /\ m[j].at = m[i].at
          /\ customer[Camel(<<"status">>)] = m[i].label

\* C10: no two customers share a phone; an add that fails fails with
\* DuplicatePhone, its phone being some customer's, and creates no row (the
\* rows are those of the adds that succeeded).
C10_PhonesAreUnique ==
  /\ \A i \in 1..Len(customers), j \in 1..Len(customers) :
       i # j => customers[i][phoneCol] # customers[j][phoneCol]
  /\ Len(customers) = Cardinality(added)
  /\ (ret.fn = "add" /\ ret.kind = "error") =>
       /\ ret.error = "DuplicatePhone"
       /\ RowsWithPhone(customers, ret.arg) # {}
  /\ (ret.fn = "add" /\ ret.kind = "ok") =>
       Cardinality(RowsWithPhone(customers, ret.arg)) = 1

\* After an update, an add was refused for its phone, which the one customer
\* holds.
C10_Witness ==
  /\ nUpdates = 1
  /\ Len(customers) = 1
  /\ ret.fn = "add" /\ ret.kind = "error" /\ ret.error = "DuplicatePhone"
  /\ customers[1][phoneCol] = ret.arg

====
